---------------------------- MODULE Spec2Model ----------------------------
(***************************************************************************)
(* Model of the tichu network client (src/client.py, class Client).        *)
(*                                                                         *)
(* Three threads of control act on one Client object:                      *)
(*   - the foreground caller (connect, request_cards, stage/unstage/move,  *)
(*     play, pass_play, the push polling pair),                            *)
(*   - the Listener thread started by connect (Client._listen),            *)
(*   - a thread that may call disconnect at any time.                      *)
(* The server is the environment: it answers every request it has received *)
(* exactly once, in arrival order, and may send push frames in between.    *)
(* A byte string is modelled as a sequence of symbols: a symbol is one     *)
(* character, or one of the words of the protocol (push, ok, err, the      *)
(* topics, a message text) taken as a unit.  The inbound stream is such a  *)
(* sequence, and a socket read returns any non-empty prefix of the symbols *)
(* in flight, BUFSIZE at most, so a read may end inside a frame at any     *)
(* field or separator.                                                     *)
(***************************************************************************)
EXTENDS Integers, Sequences, FiniteSets, TLC

\* ------------------------------------------------------------------ bounds

\* messages over the life of the client: requests the foreground sends plus
\* push frames the server sends
MaxMsg == 3
\* socket reads that end inside a frame
MaxCut == 1
\* the same two budgets for the card session (CardSpec)
MaxCardMsg == 4
MaxCardCut == 0
\* indices the local card operations are called with: -MaxIdx .. MaxIdx
MaxIdx == 1

\* ------------------------------------------------------- program constants

BUFSIZE == 1024

\* ------------------------------------------------------------ byte strings

NL == "\n"

S_push == <<"push">>
S_ok == <<"ok">>
S_err == <<"err">>
S_newtrick == <<"newtrick">>
S_yourturn == <<"yourturn">>
S_clearcards == <<"clearcards">>

Min(a, b) == IF a <= b THEN a ELSE b

\* bytes.find / str.find: 1-based position of the first c in s, 0 when absent
Find(s, c) ==
    IF \E k \in 1..Len(s) : s[k] = c
    THEN CHOOSE k \in 1..Len(s) : s[k] = c /\ \A m \in 1..(k - 1) : s[m] # c
    ELSE 0

\* s[:k-1] and s[k+1:] around the 1-based position k
Before(s, k) == SubSeq(s, 1, k - 1)
After(s, k) == SubSeq(s, k + 1, Len(s))

\* str.split(sep): the list of fields, one more than the separators in s
RECURSIVE Split(_, _)
Split(s, sep) ==
    LET k == Find(s, sep)
    IN  IF k = 0 THEN <<s>> ELSE <<Before(s, k)>> \o Split(After(s, k), sep)

\* str.lower over the alphabet of the model
LowerChar(c) ==
    CASE c = "A" -> "a"
      [] c = "B" -> "b"
      [] OTHER -> c

Lower(s) == [k \in 1..Len(s) |-> LowerChar(s[k])]

\* lst[:-1]
DropLast(l) == IF Len(l) = 0 THEN l ELSE SubSeq(l, 1, Len(l) - 1)

\* a card list that keeps what is behind the last comma
CardList_KeepsLast(msg) == Split(Lower(msg), ",")

\* message.lower().split(",")[:-1]
CardList(msg) == DropLast(Split(Lower(msg), ","))

\* ----------------------------------------------------------- server frames

\* replies of the server: a card list and an error
ReplyFrames ==
    { S_ok \o <<":", "A", ",", "b", ",", NL>>,
      S_err \o <<":", "no", ":", "x", NL>> }

\* pushes of the server: the three topics the client knows
PushFrames ==
    { S_push \o <<":">> \o S_yourturn \o <<":", NL>>,
      S_push \o <<":">> \o S_clearcards \o <<":", NL>>,
      S_push \o <<":">> \o S_newtrick \o <<":", "A", ",", NL>> }

\* the frames of the card session: a second card list, and a topic the client
\* does not know
CardReplyFrames == ReplyFrames \cup { S_ok \o <<":", "b", ",", NL>> }
CardPushFrames ==
    { S_push \o <<":">> \o S_clearcards \o <<":", NL>>,
      S_push \o <<":", "t", ":", "m", NL>> }

\* frames without the colon structure: a line with no colon, and a push whose
\* payload has none
MalformedFrames ==
    { <<"junk", NL>>,
      S_push \o <<":", "junk", NL>> }

\* the (prefix, payload) pair of a well-formed frame, as the server means it
FramePair(f) ==
    LET line == Before(f, Len(f))
        k == Find(line, ":")
    IN  <<Before(line, k), After(line, k)>>

\* ------------------------------------------------------------------- state

VARIABLES
    connected,      \* Client.connected
    sock,           \* Client.socket: "new", "open" or "closed"
    selector,       \* Client.selector: "none" (attribute not set), "open", "closed"
    listeners,      \* Listener threads connect has started
    hand,           \* Client._hand: sequence of <<original index, card>>
    stage,          \* Client._stage: sequence of <<original index, card>>
    turn,           \* Client.turn
    push_msgs,      \* Client.push_msgs
    response_msgs,  \* Client.response_msgs
    lpc,            \* Listener thread: "none", "start", "loop", "select",
                    \*   "dispatch", "clearing", "exited", "crashed"
    data,           \* the Listener's local variable data
    lmsg,           \* the Listener's local (topic, msg) inside delete_cards
    fpc,            \* foreground thread: "idle", "wait_connect", "wait_cards",
                    \*   "wait_play", "wait_pass", "play_turn", "returning"
    cmd,            \* the command of the network call in progress
    raised,         \* the exception the network call is ending with
    lastReply,      \* the pair _send_and_recv returned to the call that is ending
    wire,           \* bytes the server has sent and the client has not read
    peerShut,       \* the server has shut the stream down
    unanswered,     \* requests the server has received and not yet answered
    msgQuota,       \* requests and push frames that may still be sent
    cutQuota,       \* socket reads that may still end inside a frame
    owed,           \* the server's replies no _send_and_recv has returned yet
    stream,         \* the server's frames the Listener has not dispatched yet
    lateTurn,       \* a yourturn was dispatched after the ok reply of the
                    \* running play / pass_play was enqueued
    dealt           \* the card list of the last successful request_cards

vars ==
    <<connected, sock, selector, listeners, hand, stage, turn, push_msgs, response_msgs,
      lpc, data, lmsg, fpc, cmd, raised, lastReply, wire, peerShut, unanswered,
      msgQuota, cutQuota, owed, stream, lateTurn, dealt>>

clientVars == <<connected, sock, selector, listeners>>
cardVars == <<hand, stage>>
queueVars == <<push_msgs, response_msgs>>
listenerVars == <<lpc, data, lmsg>>
serverVars == <<wire, peerShut, unanswered, msgQuota, cutQuota>>
callVars == <<fpc, cmd, raised, lastReply, dealt>>
ghostVars == <<owed, stream, lateTurn>>

NoError == <<"none", <<>>>>

\* Client.__init__
Constructed ==
    /\ connected = FALSE
    /\ sock = "new"
    /\ selector = "none"
    /\ listeners = 0
    /\ hand = <<>>
    /\ stage = <<>>
    /\ turn = FALSE
    /\ push_msgs = <<>>
    /\ response_msgs = <<>>
    /\ lpc = "none"
    /\ data = <<>>
    /\ lmsg = <<>>
    /\ fpc = "idle"
    /\ cmd = <<>>
    /\ raised = NoError
    /\ lastReply = <<>>
    /\ wire = <<>>
    /\ peerShut = FALSE
    /\ unanswered = 0
    /\ owed = <<>>
    /\ stream = <<>>
    /\ lateTurn = FALSE
    /\ dealt = <<>>

Init ==
    /\ Constructed
    /\ msgQuota = MaxMsg
    /\ cutQuota = MaxCut

CardInit ==
    /\ Constructed
    /\ msgQuota = MaxCardMsg
    /\ cutQuota = MaxCardCut


\* ---------------------------------------------------------------- Listener

\* sel = DefaultSelector(); self.selector = sel; sel.register(self.socket, ...)
\* registering a socket that is already closed raises ValueError
ListenStart ==
    /\ lpc = "start"
    /\ selector' = "open"
    /\ lpc' = IF sock = "closed" THEN "crashed" ELSE "loop"
    /\ UNCHANGED <<connected, sock, listeners, cardVars, turn, queueVars, data, lmsg,
                   serverVars, callVars, ghostVars>>

\* while self.connected:
ListenLoop ==
    /\ lpc = "loop"
    /\ lpc' = IF connected THEN "select" ELSE "exited"
    /\ UNCHANGED <<clientVars, cardVars, turn, queueVars, data, lmsg,
                   serverVars, callVars, ghostVars>>

\* the value of data after `data = key.data; data += recv_data`: key.data is
\* the b"" given to register and is never written, so nothing of the previous
\* read is in it
Received(recv_data) == <<>> \o recv_data

\* a read of the first n bytes in flight ends inside a frame
CutsFrame(n) == n > 0 /\ wire[n] # NL

\* events = sel.select(timeout=None); recv_data = sock.recv(BUFSIZE) returning
\* the first n bytes in flight
ListenRecvN(n) ==
    /\ lpc = "select"
    /\ selector = "open"
    /\ sock = "open"
    /\ CutsFrame(n) => cutQuota > 0
    /\ cutQuota' = IF CutsFrame(n) THEN cutQuota - 1 ELSE cutQuota
    /\ data' = Received(SubSeq(wire, 1, n))
    /\ wire' = SubSeq(wire, n + 1, Len(wire))
    /\ lpc' = "dispatch"
    /\ UNCHANGED <<clientVars, cardVars, turn, queueVars, lmsg, peerShut,
                   unanswered, msgQuota, callVars, ghostVars>>

\* a read returns any non-empty prefix of the bytes in flight, BUFSIZE at most
ListenRecv ==
    /\ wire # <<>>
    /\ \E n \in 1..Min(Len(wire), BUFSIZE) : ListenRecvN(n)

\* the peer has shut the stream down: the socket is readable and recv returns b""
ListenEof ==
    /\ wire = <<>>
    /\ peerShut
    /\ ListenRecvN(0)

\* sel.select on a selector that disconnect has closed raises
ListenSelectFail ==
    /\ lpc = "select"
    /\ selector = "closed"
    /\ lpc' = "crashed"
    /\ UNCHANGED <<clientVars, cardVars, turn, queueVars, data, lmsg,
                   serverVars, callVars, ghostVars>>

\* the frame at the head of data: the bytes before the first newline
Line(d) == Before(d, Find(d, NL))
Rest(d) == After(d, Find(d, NL))

\* status, msg = line.split(":", 1) and topic, msg = msg.split(":", 1) need a colon
HasColon(s) == Find(s, ":") # 0
Prefix(s) == Before(s, Find(s, ":"))
Payload(s) == After(s, Find(s, ":"))

\* where the Listener puts a decoded frame: "crash" (the split raises),
\* "response", "push", "turn" (yourturn) or "clear" (clearcards)
Route(line) ==
    IF ~HasColon(line) THEN "crash"
    ELSE IF Prefix(line) # S_push THEN "response"
    ELSE IF ~HasColon(Payload(line)) THEN "crash"
    ELSE IF Prefix(Payload(line)) = S_yourturn THEN "turn"
    ELSE IF Prefix(Payload(line)) = S_clearcards THEN "clear"
    ELSE "push"

\* the entry put on the push channel for a push frame
PushEntry(line) ==
    LET topic == Prefix(Payload(line))
        msg == Payload(Payload(line))
    IN  IF topic = S_newtrick THEN <<topic, CardList(msg)>> ELSE <<topic, msg>>

\* the entry put on the response channel for any other frame
ResponseEntry(line) == <<Prefix(line), Payload(line)>>

\* one round of `while b"\n" in data:`; without a newline the for loop ends, the
\* rest of data is dropped with the local variable and the outer loop goes on
\* the running play / pass_play has its ok reply: response_msgs.put has put
\* it where the blocking get takes it, or play has taken it already
OkReplyEnqueued ==
    \/ fpc = "play_turn"
    \/ /\ fpc \in {"wait_play", "wait_pass"}
       /\ response_msgs # <<>>
       /\ Head(response_msgs)[1] = S_ok

ListenDispatch ==
    /\ lpc = "dispatch"
    /\ IF Find(data, NL) = 0
       THEN /\ data' = <<>>
            /\ lpc' = "loop"
            /\ UNCHANGED <<cardVars, turn, queueVars, lmsg, stream, lateTurn>>
       ELSE LET line == Line(data)
                route == Route(line)
            IN  /\ data' = IF route = "crash" THEN <<>> ELSE Rest(data)
                /\ lpc' = CASE route = "crash" -> "crashed"
                            [] route = "clear" -> "clearing"
                            [] OTHER -> "dispatch"
                /\ turn' = IF route = "turn" THEN TRUE ELSE turn
                /\ lateTurn' = (lateTurn \/ (route = "turn" /\ OkReplyEnqueued))
                /\ stage' = IF route = "clear" THEN <<>> ELSE stage
                /\ lmsg' = IF route = "clear" THEN PushEntry(line) ELSE lmsg
                /\ push_msgs' = IF route = "push"
                                THEN Append(push_msgs, PushEntry(line))
                                ELSE push_msgs
                /\ response_msgs' = IF route = "response"
                                    THEN Append(response_msgs, ResponseEntry(line))
                                    ELSE response_msgs
                /\ stream' = IF stream = <<>> THEN stream ELSE Tail(stream)
                /\ UNCHANGED hand
    /\ UNCHANGED <<clientVars, serverVars, callVars, owed>>

\* the rest of delete_cards (self._hand = []) and self.push_msgs.put((topic, msg))
ListenClearHand ==
    /\ lpc = "clearing"
    /\ hand' = <<>>
    /\ push_msgs' = Append(push_msgs, lmsg)
    /\ lmsg' = <<>>
    /\ lpc' = "dispatch"
    /\ UNCHANGED <<clientVars, stage, turn, response_msgs, data, serverVars,
                   callVars, ghostVars>>

\* ------------------------------------------------------------------ server

\* the server answers the oldest unanswered request with a frame of F
ServerReplyOf(F) ==
    /\ sock = "open"
    /\ ~peerShut
    /\ unanswered > 0
    /\ \E f \in F :
        /\ wire' = wire \o f
        /\ owed' = Append(owed, FramePair(f))
        /\ stream' = Append(stream, Before(f, Len(f)))
    /\ unanswered' = unanswered - 1
    /\ UNCHANGED <<clientVars, cardVars, turn, queueVars, listenerVars,
                   peerShut, msgQuota, cutQuota, callVars, lateTurn>>

ServerReply == ServerReplyOf(ReplyFrames)
CardServerReply == ServerReplyOf(CardReplyFrames)

\* the server sends a push frame of F
ServerPushOf(F) ==
    /\ sock = "open"
    /\ ~peerShut
    /\ msgQuota > 0
    /\ \E f \in F :
        /\ wire' = wire \o f
        /\ stream' = Append(stream, Before(f, Len(f)))
    /\ msgQuota' = msgQuota - 1
    /\ UNCHANGED <<clientVars, cardVars, turn, queueVars, listenerVars,
                   peerShut, unanswered, cutQuota, callVars, owed, lateTurn>>

ServerPush == ServerPushOf(PushFrames)
CardServerPush == ServerPushOf(CardPushFrames)

\* the server sends a frame the protocol does not allow
ServerMalformed == ServerPushOf(MalformedFrames)

\* the server shuts the stream down
ServerShutdown ==
    /\ sock = "open"
    /\ ~peerShut
    /\ peerShut' = TRUE
    /\ UNCHANGED <<clientVars, cardVars, turn, queueVars, listenerVars, wire,
                   unanswered, msgQuota, cutQuota, callVars, ghostVars>>

\* ------------------------------------------------------- Python list methods

\* list.pop(i) raises IndexError unless -len <= i < len
PopOk(l, i) == -Len(l) <= i /\ i < Len(l)

\* the 1-based position list.pop(i) removes
PopPos(l, i) == IF i < 0 THEN i + Len(l) + 1 ELSE i + 1

PopItem(l, i) == l[PopPos(l, i)]

\* a pop that leaves the item in the list
PopRest_KeepsItem(l, i) == l

\* the list after list.pop(i)
PopRest(l, i) == SubSeq(l, 1, PopPos(l, i) - 1) \o SubSeq(l, PopPos(l, i) + 1, Len(l))

\* list.insert(j, x): a negative j counts from the end, and j is clamped to 0..len
InsertPos(l, j) ==
    LET k == IF j < 0 THEN j + Len(l) ELSE j
    IN  IF k < 0 THEN 0 ELSE IF k > Len(l) THEN Len(l) ELSE k

Insert(l, j, x) ==
    SubSeq(l, 1, InsertPos(l, j)) \o <<x>> \o SubSeq(l, InsertPos(l, j) + 1, Len(l))

\* -------------------------------------------------------------- card methods

\* hand setter: self._hand = list(enumerate(h))
HandSetter(h) == [k \in 1..Len(h) |-> <<k - 1, h[k]>>]

\* hand / stage getter: [c for _, c in ...]
Cards(l) == [k \in 1..Len(l) |-> l[k][2]]

\* stage_card: self._stage.insert(j, self._hand.pop(i)); the pair <<hand, stage>>
StageCardOp(h, s, i, j) == <<PopRest(h, i), Insert(s, j, PopItem(h, i))>>

\* unstage_card: self._hand.insert(j, self._stage.pop(i))
UnstageCardOp(h, s, i, j) == <<Insert(h, j, PopItem(s, i)), PopRest(s, i)>>

\* move_hand / move_stage: l.insert(j, l.pop(i))
MoveOp(l, i, j) == Insert(PopRest(l, i), j, PopItem(l, i))

\* play: indices = [i for i, _ in self._stage]; "play " + " ".join(map(str, indices))
PlayCommand(s) == <<"play", [k \in 1..Len(s) |-> s[k][1]]>>

\* ---------------------------------------------------------------- foreground

Indices == (-MaxIdx)..MaxIdx

OSError == <<"OSError", <<>>>>
TichuError(message) == <<"TichuError", message>>

\* _send on a socket that is not connected or is closed raises OSError
CanSend == sock = "open"

\* _send(message) followed by the start of the blocking response_msgs.get()
SendAndWait(command, waitpc) ==
    /\ fpc = "idle"
    /\ msgQuota > 0
    /\ IF CanSend
       THEN /\ msgQuota' = msgQuota - 1
            /\ unanswered' = IF peerShut THEN unanswered ELSE unanswered + 1
            /\ fpc' = waitpc
            /\ raised' = NoError
       ELSE /\ raised' = OSError
            /\ fpc' = "returning"
            /\ UNCHANGED <<msgQuota, unanswered>>
    /\ cmd' = command
    /\ UNCHANGED <<clientVars, cardVars, turn, queueVars, listenerVars, wire,
                   peerShut, cutQuota, lastReply, dealt, ghostVars>>

\* response_msgs.get() returns the head of the response channel
RecvTo(waitpc, nextpc) ==
    /\ fpc = waitpc
    /\ response_msgs # <<>>
    /\ lastReply' = Head(response_msgs)
    /\ response_msgs' = Tail(response_msgs)
    /\ owed' = IF owed = <<>> THEN owed ELSE Tail(owed)
    /\ fpc' = nextpc
    /\ UNCHANGED <<clientVars, push_msgs, listenerVars, serverVars, cmd, stream,
                   lateTurn>>

\* the get of a call that has nothing left to do on the shared fields but one
\* assignment or a raise
Recv(waitpc) == RecvTo(waitpc, "returning")

\* a socket.connect that never raises
SocketConnectRaises_Never(so) == FALSE

\* self.socket.connect(self.remote_addr) raises OSError on a socket that is
\* connected already or closed; __init__ creates the only socket
SocketConnectRaises(so) == so # "new"

\* connect up to the blocking wait: socket.connect, connected = True, the
\* Listener thread is started, the username is sent.  socket.connect raises
\* OSError on a socket that is already connected or closed.
Connect ==
    /\ fpc = "idle"
    /\ msgQuota > 0
    /\ IF ~SocketConnectRaises(sock)
       THEN /\ sock' = "open"
            /\ connected' = TRUE
            /\ lpc' = "start"
            /\ listeners' = listeners + 1
            /\ msgQuota' = msgQuota - 1
            /\ unanswered' = unanswered + 1
            /\ fpc' = "wait_connect"
            /\ raised' = NoError
       ELSE /\ raised' = OSError
            /\ fpc' = "returning"
            /\ UNCHANGED <<sock, connected, lpc, listeners, msgQuota, unanswered>>
    /\ cmd' = <<"user">>
    /\ UNCHANGED <<selector, cardVars, turn, queueVars, data, lmsg, wire,
                   peerShut, cutQuota, lastReply, dealt, ghostVars>>

\* the exception connect ends with after it got (status, message)
ConnectRaised(status, message) ==
    IF status = S_err THEN TichuError(message) ELSE NoError

\* connect after the wait: if status == "err": raise TichuError(message)
ConnectReturn ==
    /\ Recv("wait_connect")
    /\ raised' = ConnectRaised(Head(response_msgs)[1], Head(response_msgs)[2])
    /\ UNCHANGED <<cardVars, turn, dealt>>

RequestCards == SendAndWait(<<"takecards">>, "wait_cards")

\* the hand after request_cards got (status, message)
RequestCardsHand(status, message, h) ==
    IF status = S_ok THEN HandSetter(CardList(message)) ELSE h

RequestCardsReturn ==
    /\ Recv("wait_cards")
    /\ LET status == Head(response_msgs)[1]
           message == Head(response_msgs)[2]
       IN  /\ hand' = RequestCardsHand(status, message, hand)
           /\ dealt' = IF status = S_ok THEN CardList(message) ELSE dealt
           /\ raised' = IF status = S_err THEN TichuError(message) ELSE NoError
    /\ UNCHANGED <<stage, turn>>

\* the local card operations change nothing but the two lists; a call whose
\* pop raises IndexError changes nothing at all
LocalFrame ==
    UNCHANGED <<clientVars, turn, queueVars, listenerVars, serverVars, callVars,
                ghostVars>>

StageCard ==
    /\ fpc = "idle"
    /\ \E i, j \in Indices :
        /\ PopOk(hand, i)
        /\ hand' = StageCardOp(hand, stage, i, j)[1]
        /\ stage' = StageCardOp(hand, stage, i, j)[2]
    /\ LocalFrame

UnstageCard ==
    /\ fpc = "idle"
    /\ \E i, j \in Indices :
        /\ PopOk(stage, i)
        /\ hand' = UnstageCardOp(hand, stage, i, j)[1]
        /\ stage' = UnstageCardOp(hand, stage, i, j)[2]
    /\ LocalFrame

MoveHand ==
    /\ fpc = "idle"
    /\ \E i, j \in Indices :
        /\ PopOk(hand, i)
        /\ hand' = MoveOp(hand, i, j)
    /\ UNCHANGED stage
    /\ LocalFrame

MoveStage ==
    /\ fpc = "idle"
    /\ \E i, j \in Indices :
        /\ PopOk(stage, i)
        /\ stage' = MoveOp(stage, i, j)
    /\ UNCHANGED hand
    /\ LocalFrame

IndexError == <<"IndexError", <<>>>>

\* the exception a local card operation that pops l at i ends with: pop raises
\* before anything is changed, insert never raises
LocalRaised(l, i) == IF PopOk(l, i) THEN NoError ELSE IndexError

\* a local card operation whose pop raises: nothing is changed and the caller
\* gets the IndexError
PopFails(l) ==
    /\ fpc = "idle"
    /\ \E i \in Indices : LocalRaised(l, i) = IndexError
    /\ raised' = IndexError
    /\ fpc' = "returning"
    /\ UNCHANGED <<clientVars, cardVars, turn, queueVars, listenerVars,
                   serverVars, cmd, lastReply, dealt, ghostVars>>

StageCardFails == PopFails(hand)
UnstageCardFails == PopFails(stage)
MoveHandFails == PopFails(hand)
MoveStageFails == PopFails(stage)

Play == SendAndWait(PlayCommand(stage), "wait_play")

\* a play that empties the stage whatever the status
PlayStage_Always(status, s) == <<>>

\* a play / pass_play that clears the turn flag whatever the status
PlayTurn_Always(status, t) == FALSE

\* the stage and the turn flag after play / pass_play got status
PlayStage(status, s) == IF status = S_ok THEN <<>> ELSE s
PlayTurn(status, t) == IF status = S_ok THEN FALSE ELSE t
PlayRaised(status, message) == IF status = S_ok THEN NoError ELSE TichuError(message)

\* play after the wait, up to `self._stage = []` or the raise
PlayReturn ==
    /\ LET status == Head(response_msgs)[1]
           message == Head(response_msgs)[2]
       IN  /\ RecvTo("wait_play", IF status = S_ok THEN "play_turn" ELSE "returning")
           /\ stage' = PlayStage(status, stage)
           /\ raised' = PlayRaised(status, message)
    /\ UNCHANGED <<hand, turn, dealt>>

\* the second assignment of a successful play: self.turn = False
PlayClearTurn ==
    /\ fpc = "play_turn"
    /\ turn' = PlayTurn(lastReply[1], turn)
    /\ fpc' = "returning"
    /\ UNCHANGED <<clientVars, cardVars, queueVars, listenerVars, serverVars,
                   cmd, raised, lastReply, dealt, ghostVars>>

PassPlay == SendAndWait(<<"pass">>, "wait_pass")

PassReturn ==
    /\ Recv("wait_pass")
    /\ LET status == Head(response_msgs)[1]
           message == Head(response_msgs)[2]
       IN  /\ turn' = PlayTurn(status, turn)
           /\ raised' = PlayRaised(status, message)
    /\ UNCHANGED <<cardVars, dealt>>

\* the call ends: its caller gets the return value or the exception
\* (tichu.py wraps the button callbacks in catch_server_error)
Return ==
    /\ fpc = "returning"
    /\ fpc' = "idle"
    /\ raised' = NoError
    /\ lastReply' = <<>>
    /\ cmd' = <<>>
    /\ lateTurn' = FALSE
    /\ UNCHANGED <<clientVars, cardVars, turn, queueVars, listenerVars,
                   serverVars, dealt, owed, stream>>

\* a get that takes the entry put last
QueueGet_Newest(q) == <<q[Len(q)], SubSeq(q, 1, Len(q) - 1)>>

\* Queue.get on a queue that is not empty: the entry put first, and the rest
QueueGet(q) == <<Head(q), Tail(q)>>

\* if self.client.has_push_msgs(): topic, msg = self.client.get_newest_push()
GetNewestPush ==
    /\ fpc = "idle"
    /\ push_msgs # <<>>
    /\ push_msgs' = QueueGet(push_msgs)[2]
    /\ UNCHANGED <<clientVars, cardVars, turn, response_msgs, listenerVars,
                   serverVars, callVars, ghostVars>>

\* --------------------------------------------------------------- disconnect

\* selector.unregister(self.socket) raises once the selector is closed, and
\* also when the socket was closed before the Listener could register it
DisconnectRaises(sel, so) == sel = "closed" \/ (sel = "open" /\ so = "closed")

\* disconnect, from any thread: connected = False; with a selector attribute,
\* unregister the socket and close the selector; close the socket.  When
\* unregister raises the call ends there.  Closing the socket discards the
\* bytes it has not read.
Disconnect ==
    /\ sock # "new"
    /\ connected' = FALSE
    /\ IF DisconnectRaises(selector, sock)
       THEN UNCHANGED <<selector, sock, wire>>
       ELSE /\ selector' = IF selector = "open" THEN "closed" ELSE selector
            /\ sock' = "closed"
            /\ wire' = <<>>
    /\ UNCHANGED <<listeners, cardVars, turn, queueVars, listenerVars, peerShut,
                   unanswered, msgQuota, cutQuota, callVars, ghostVars>>

\* ------------------------------------------------------------ specification

\* the client against the server and a network that may cut frames, with
\* disconnect called at any time
Next ==
    \/ Connect
    \/ ConnectReturn
    \/ RequestCards
    \/ RequestCardsReturn
    \/ StageCard
    \/ UnstageCard
    \/ MoveHand
    \/ MoveStage
    \/ Play
    \/ PlayReturn
    \/ PlayClearTurn
    \/ PassPlay
    \/ PassReturn
    \/ Return
    \/ GetNewestPush
    \/ ListenStart
    \/ ListenLoop
    \/ ListenRecv
    \/ ListenSelectFail
    \/ ListenDispatch
    \/ ListenClearHand
    \/ ServerReply
    \/ ServerPush
    \/ Disconnect

Spec == Init /\ [][Next]_vars

\* the card session: the same client with a larger request budget, against a
\* network that never cuts a frame and a server that stays; the caller may
\* pass indices that make pop raise, the server may send malformed frames
CardNext ==
    \/ Connect
    \/ ConnectReturn
    \/ RequestCards
    \/ RequestCardsReturn
    \/ StageCard
    \/ UnstageCard
    \/ MoveHand
    \/ MoveStage
    \/ Play
    \/ PlayReturn
    \/ PlayClearTurn
    \/ PassPlay
    \/ PassReturn
    \/ Return
    \/ GetNewestPush
    \/ ListenStart
    \/ ListenLoop
    \/ ListenRecv
    \/ ListenDispatch
    \/ ListenClearHand
    \/ CardServerReply
    \/ CardServerPush
    \/ StageCardFails
    \/ UnstageCardFails
    \/ MoveHandFails
    \/ MoveStageFails
    \/ ServerMalformed

CardSpec == CardInit /\ [][CardNext]_vars

\* the feed of the server: the client connects, requests cards and polls the
\* push channel while the server replies and pushes; the application moves no
\* card and plays none
FeedNext ==
    \/ Connect
    \/ ConnectReturn
    \/ RequestCards
    \/ RequestCardsReturn
    \/ Return
    \/ GetNewestPush
    \/ ListenStart
    \/ ListenLoop
    \/ ListenRecv
    \/ ListenDispatch
    \/ ListenClearHand
    \/ ServerReply
    \/ ServerPush

FeedSpec == CardInit /\ [][FeedNext]_vars

\* the same client with a peer that may shut the stream down; the two threads
\* of the client are scheduled fairly, the server and the caller of disconnect
\* need never act
CloseNext ==
    \/ Next
    \/ ListenEof
    \/ ServerShutdown

\* the steps the scheduler owes the Listener.  ListenSelectFail is not one of
\* them: sel.select raises only when it is called after the selector was
\* closed; a Listener that is already waiting inside it when disconnect
\* unregisters the socket and closes the selector is never woken
ListenerStep ==
    \/ ListenStart
    \/ ListenLoop
    \/ ListenRecv
    \/ ListenEof
    \/ ListenDispatch
    \/ ListenClearHand

ReturnStep ==
    \/ ConnectReturn
    \/ RequestCardsReturn
    \/ PlayReturn
    \/ PlayClearTurn
    \/ PassReturn
    \/ Return

CloseSpec ==
    /\ Init
    /\ [][CloseNext]_vars
    /\ WF_vars(ListenerStep)
    /\ WF_vars(ReturnStep)

\* ------------------------------------------------------------------- claims

Waits == {"wait_connect", "wait_cards", "wait_play", "wait_pass"}

\* _send_and_recv returns in this step
Returns == fpc \in Waits /\ fpc' # fpc

\* the (prefix, payload) pairs of the frames the server sends
ReplyPairs == {FramePair(f) : f \in ReplyFrames \cup CardReplyFrames}
PushPairs == {FramePair(f) : f \in PushFrames \cup CardPushFrames}

\* C1: the reply returned to the k-th request is the server's k-th reply:
\* whenever _send_and_recv returns, it returns the oldest reply of the server
\* that no earlier call has returned.
C1_RepliesInOrder ==
    [][Returns => owed # <<>> /\ lastReply' = Head(owed)]_vars

\* the topics of the pushes the server sends
PushTopics == {Before(p[2], Find(p[2], ":")) : p \in PushPairs}

\* C2: pushes and replies are segregated: the response channel holds nothing
\* but replies the server sent, the push channel nothing but pushes the server
\* sent, and never a yourturn push.
C2_Segregated ==
    /\ \A k \in 1..Len(response_msgs) : response_msgs[k] \in ReplyPairs
    /\ \A k \in 1..Len(push_msgs) : push_msgs[k][1] \in PushTopics \ {S_yourturn}

\* C3: a call that is blocked on the response channel when the connection is
\* closed, by disconnect or by the peer, eventually returns or raises.
C3_CloseUnblocks ==
    (fpc \in Waits /\ (sock = "closed" \/ peerShut)) ~> (fpc \notin Waits)

\* the bytes of a sequence of frames
RECURSIVE Encode(_)
Encode(frames) ==
    IF frames = <<>> THEN <<>> ELSE Head(frames) \o <<NL>> \o Encode(Tail(frames))

\* C4: however the stream is cut into reads, the frames the Listener still has
\* to dispatch are the frames of the uncut stream: the bytes it holds and the
\* bytes in flight are the bytes of the frames not yet dispatched.
C4_NoByteLost ==
    (sock = "open" /\ lpc # "crashed") => data \o wire = Encode(stream)

\* the 0-based index of the card c in the list l, -1 when it is not in it
IndexIn(l, c) == Find(l, c) - 1

\* C5: play sends, for each card in Stage in stage order, the index that card
\* had in the Hand delivered by the last request_cards.
C5_PlaySendsDealtIndices ==
    [][(fpc = "idle" /\ fpc' = "wait_play") =>
        cmd' = <<"play", [k \in 1..Len(stage) |-> IndexIn(dealt, stage[k][2])]>>]_vars

\* C6: for every pair (i, j) stage_card accepts, stage_card(i, j) followed by
\* unstage_card(j, i) restores Hand and Stage.
C6_StageUnstageRestores ==
    \A i, j \in Indices :
        PopOk(hand, i) =>
            LET staged == StageCardOp(hand, stage, i, j)
            IN  /\ PopOk(staged[2], j)
                /\ UnstageCardOp(staged[1], staged[2], j, i) = <<hand, stage>>

\* C7: no original card index occurs twice in Hand and Stage together.
C7_IndexInOneList ==
    LET all == hand \o stage
    IN  \A m, n \in 1..Len(all) : m # n => all[m][1] # all[n][1]

\* the Listener dispatches a yourturn push in this step
DispatchesYourturn ==
    /\ lpc = "dispatch"
    /\ Find(data, NL) # 0
    /\ HasColon(Line(data))
    /\ Prefix(Line(data)) = S_push
    /\ HasColon(Payload(Line(data)))
    /\ Prefix(Payload(Line(data))) = S_yourturn
    /\ data' = Rest(data)

\* play or pass_play gets a reply with this status in this step
PlayGets(status) ==
    /\ fpc \in {"wait_play", "wait_pass"}
    /\ fpc' # fpc
    /\ Head(response_msgs)[1] = status

\* play or pass_play executes `self.turn = False` in this step
ClearsTurn ==
    \/ fpc = "play_turn" /\ fpc' = "returning"
    \/ fpc = "wait_pass" /\ PlayGets(S_ok)

\* C8: the turn flag starts false; it becomes true only when the Listener
\* processes a yourturn push, which sets it and puts nothing on the push
\* channel; it becomes false only when play or pass_play, having got an ok
\* reply, clears it, and every play and pass_play that gets ok does so.
C8_TurnLifecycle ==
    /\ turn = FALSE
    /\ [][/\ (~turn /\ turn') => DispatchesYourturn
          /\ DispatchesYourturn => turn' /\ push_msgs' = push_msgs
          /\ (turn /\ ~turn') => ClearsTurn
          /\ ClearsTurn => ~turn'
          /\ (fpc # "play_turn" /\ fpc' = "play_turn") => PlayGets(S_ok)
          /\ PlayGets(S_ok) => (ClearsTurn \/ fpc' = "play_turn")]_vars

\* the turn flag is set and play has an ok reply waiting on the response channel
C8_Witness ==
    /\ turn
    /\ fpc = "wait_play"
    /\ response_msgs # <<>>
    /\ Head(response_msgs)[1] = S_ok

C10_ConnectedAfterOk ==
    /\ fpc = "wait_connect" => ~connected
    /\ (fpc = "returning" /\ cmd = <<"user">> /\ raised[1] = "TichuError") => ~connected

\* request_cards, play or pass_play is called in this step
CallsNetwork == fpc = "idle" /\ cmd' # <<>> /\ cmd' # <<"user">>

\* C11: once the connection is closed, by disconnect or by the peer, every
\* request_cards, play and pass_play fails at once with an error: it sends
\* nothing and does not wait on the response channel.
C11_FailsFastAfterClose ==
    [][(CallsNetwork /\ (sock = "closed" \/ peerShut)) =>
        /\ fpc' = "returning"
        /\ raised'[1] = "OSError"
        /\ UNCHANGED <<unanswered, msgQuota>>]_vars

\* C12: disconnect may be called at any point of the Listener's execution and
\* a second time: no call of it raises, the Listener does not die of an
\* exception in register or select, and connected is false once the socket is
\* closed.
C12_DisconnectSafe ==
    /\ [](sock # "new" => ~DisconnectRaises(selector, sock))
    /\ [][/\ lpc \in {"start", "select"} => lpc' # "crashed"
          /\ (sock # "closed" /\ sock' = "closed") => ~connected']_vars

\* the source indices of l, the positions a card can be put at in l, and the
\* positions a card of l can be moved to
ValidSrc(l, i) == 0 <= i /\ i < Len(l)
ValidDst(l, j) == 0 <= j /\ j <= Len(l)
ValidMove(l, j) == 0 <= j /\ j < Len(l)

\* C13: stage_card, unstage_card, move_hand and move_stage called with a
\* source or target index outside the valid range raise an index error, and a
\* call that raises leaves Hand and Stage unchanged.
C13_IndexErrors ==
    /\ [](\A i, j \in Indices :
            /\ ~(ValidSrc(hand, i) /\ ValidDst(stage, j)) => LocalRaised(hand, i) = IndexError
            /\ ~(ValidSrc(stage, i) /\ ValidDst(hand, j)) => LocalRaised(stage, i) = IndexError
            /\ ~(ValidSrc(hand, i) /\ ValidMove(hand, j)) => LocalRaised(hand, i) = IndexError
            /\ ~(ValidSrc(stage, i) /\ ValidMove(stage, j)) => LocalRaised(stage, i) = IndexError)
    /\ [][(fpc = "idle" /\ raised' = IndexError) => UNCHANGED cardVars]_vars

\* the Listener takes a step / the foreground polls the push channel
ListenerActs == lpc' # lpc \/ data' # data
Polls == fpc = "idle" /\ fpc' = "idle" /\ UNCHANGED <<cardVars, listenerVars>>

\* a poll of a non-empty push channel can return, and the Listener can put
\* its entry whatever the push channel holds
NeverBlocks ==
    /\ (fpc = "idle" /\ push_msgs # <<>>) => ENABLED GetNewestPush
    /\ lpc = "clearing" => ENABLED ListenClearHand

\* C14: the push channel is a FIFO: only the Listener changes it by putting an
\* entry at its end, and only the polling consumer by taking the oldest entry;
\* a poll of a non-empty channel does not block, and no number of unconsumed
\* entries blocks the Listener.
C14_PushFifo ==
    /\ NeverBlocks
    /\ [][/\ NeverBlocks'
          /\ push_msgs' # push_msgs =>
                \/ /\ ListenerActs
                   /\ Len(push_msgs') = Len(push_msgs) + 1
                   /\ SubSeq(push_msgs', 1, Len(push_msgs)) = push_msgs
                \/ /\ Polls
                   /\ push_msgs # <<>>
                   /\ push_msgs' = Tail(push_msgs)]_vars

\* two different pushes are waiting for the consumer
C14_Witness ==
    /\ fpc = "idle"
    /\ Len(push_msgs) >= 2
    /\ push_msgs[1] # push_msgs[2]

\* the card names each followed by a comma: the payload of a card list
RECURSIVE JoinCards(_)
JoinCards(cards) ==
    IF cards = <<>> THEN <<>>
    ELSE Head(cards) \o <<",">> \o JoinCards(Tail(cards))

\* request_cards gets a reply with this status in this step
CardsGets(status) ==
    /\ fpc = "wait_cards"
    /\ fpc' = "returning"
    /\ Head(response_msgs)[1] = status

\* the payload ends with a comma
TrailingComma(message) == message # <<>> /\ message[Len(message)] = ","

\* C15: on an ok reply whose payload is a card list with a trailing comma,
\* Hand becomes the lower-cased cards of the payload in payload order,
\* numbered from 0, with nothing for the empty field behind the last comma;
\* on an err reply request_cards raises the server's message and leaves Hand.
C15_RequestCardsParses ==
    [][LET message == Head(response_msgs)[2]
       IN  /\ (CardsGets(S_ok) /\ TrailingComma(message)) =>
                /\ JoinCards(Cards(hand')) = Lower(message)
                /\ \A k \in 1..Len(hand') :
                      /\ hand'[k][1] = k - 1
                      /\ Find(hand'[k][2], ",") = 0
                /\ raised' = NoError
           /\ CardsGets(S_err) =>
                /\ raised' = <<"TichuError", message>>
                /\ hand' = hand]_vars

\* request_cards has turned the reply ok:A,b, into the hand a, b
C15_Witness ==
    /\ fpc = "returning"
    /\ cmd = <<"takecards">>
    /\ lastReply = <<S_ok, <<"A", ",", "b", ",">>>>
    /\ hand = <<<<0, <<"a">>>>, <<1, <<"b">>>>>>

\* the Listener is through with a read and the peer has shut the stream down
\* with nothing left in flight: this read, or else the next, returns b""
ReadsEof == peerShut /\ wire = <<>> /\ lpc = "dispatch" /\ data = <<>>

\* C16: when the Listener's read returns zero bytes the Listener eventually
\* leaves its loop and connected is false, unless the client closes the
\* connection itself in the meantime.
C16_EofEndsListener ==
    ReadsEof ~> ((~connected /\ lpc \in {"exited", "crashed"}) \/ sock = "closed")

\* C17: after disconnect has closed the connection the Listener thread
\* eventually terminates, by leaving its loop or by an exception.
C17_DisconnectEndsListener ==
    (sock = "closed") ~> (lpc \in {"exited", "crashed"})

\* the Listener puts the (clearcards, payload) entry on the push channel
PutsClearcards == lpc = "clearing" /\ lpc' = "dispatch"

\* C18: whatever the foreground does while the Listener processes a clearcards
\* push, Hand and Stage are both empty when the clearcards entry is put on the
\* push channel: no card held before the push is left.
C18_ClearcardsClears ==
    [][PutsClearcards => (hand' = <<>> /\ stage' = <<>>)]_vars

\* the Listener is between the two assignments of delete_cards / the
\* foreground is between the two assignments of a successful play
ListenerUpdates == lpc = "clearing"
ForegroundUpdates == fpc = "play_turn"

\* C19: the Listener is never in the middle of a push side effect on Hand,
\* Stage and turn while the foreground is in the middle of an update of them.
C19_UpdatesExclude == ~(ListenerUpdates /\ ForegroundUpdates)

\* C20: when the Listener has died of a line without the colon structure the
\* connection is marked not connected: the client is never left with
\* connected true and no running Listener.
C20_MalformedDisconnects == lpc = "crashed" => ~connected

\* C21: whatever the sequence of connect and disconnect calls, at most one
\* Listener thread is ever started for a Client, so that at most one exists.
C21_OneListener == listeners <= 1

\* a connect after a disconnect has failed, with the one Listener started
C21_Witness ==
    /\ fpc = "returning"
    /\ cmd = <<"user">>
    /\ raised = OSError
    /\ sock = "closed"
    /\ listeners = 1

\* C22: a yourturn push the Listener dispatches after it has enqueued the ok
\* reply to a play or pass_play is not lost: when that call has returned, the
\* turn flag is true.
C22_YourturnNotLost ==
    (fpc = "returning" /\ cmd # <<>> /\ cmd[1] \in {"play", "pass"} /\ lateTurn)
        => turn

\* the multiset of the entries of l
PairBag(l) ==
    [x \in {l[k] : k \in 1..Len(l)} |-> Cardinality({k \in 1..Len(l) : l[k] = x})]

\* the (original index, card) pairs the client holds
Held(h, s) == PairBag(h \o s)

\* a step of stage_card, unstage_card, move_hand or move_stage that changes a list
LocalCall == fpc = "idle" /\ UNCHANGED listenerVars /\ cardVars' # cardVars

\* C23: stage_card, unstage_card, move_hand and move_stage with valid indices
\* (and with any other indices the pop accepts) conserve the multiset of
\* (original index, card) pairs in Hand plus Stage; a move inside one list
\* leaves the other list unchanged; none of the four sends anything to the
\* server or changes the turn flag.
C23_LocalOpsConserve ==
    [][LocalCall =>
          /\ Held(hand', stage') = Held(hand, stage)
          /\ Len(hand') = Len(hand) => (hand' = hand \/ stage' = stage)
          /\ UNCHANGED <<turn, wire, unanswered, msgQuota, fpc, cmd>>]_vars

\* the first card dealt has been staged and the other is left in the hand:
\* every one of the four operations has a valid call
C23_Witness ==
    /\ fpc = "idle"
    /\ Len(hand) = 1
    /\ Len(stage) = 1
    /\ stage[1][1] = 0

=============================================================================
